---------------------------- MODULE Spec2Model ----------------------------
(***************************************************************************)
(* TubeLingo (src/App.jsx): the state of the TubeLingoApp component and    *)
(* its event handlers, as a state machine.  Every useState cell of the     *)
(* component is a variable of the same name; the environment (the analyze  *)
(* request in flight, the media player's position, the open alert box) is  *)
(* three more variables.  Array indices are 0-based as in the source;      *)
(* sequences are 1-based, so transcript[i] of the source is script[i + 1]. *)
(***************************************************************************)
EXTENDS Integers, Sequences, FiniteSets, TLC

VARIABLES
    view,              \* 'home' | 'analyzing' | 'study' | 'quiz_setup' | 'quiz' | 'result' | 'dashboard'
    activeTab,         \* 'study' | 'words'
    urlInput,          \* text of the URL field
    activeData,        \* the StudyBundle, or NullData
    isLoading,
    errorMsg,
    userStats,         \* [xp, streak, todayXp, goalXp, savedWords]
    playing,
    currentScriptIdx,
    quizConfig,        \* [count, difficulty]
    quizSession,
    currentQIdx,
    selectedOpt,       \* an option index, or NoOpt
    isAnswered,
    isCorrect,
    score,
    inFlight,          \* analyze requests sent and not yet resolved
    playedSeconds,     \* position of the mounted player (0 when none is mounted)
    alertMsg           \* text of the alert box that is open ("" when none)

vars == <<view, activeTab, urlInput, activeData, isLoading, errorMsg, userStats,
          playing, currentScriptIdx, quizConfig, quizSession, currentQIdx,
          selectedOpt, isAnswered, isCorrect, score, inFlight, playedSeconds,
          alertMsg>>

quizRun == <<quizSession, currentQIdx, selectedOpt, isAnswered, isCorrect, score>>

-----------------------------------------------------------------------------
(* Bounds of the model *)

\* playback times of the progress ticks are 0..MaxTime
MaxTime == 3
\* the largest question count the user of the full application picks
MaxCount == 5
\* a quiz is generated only while xp can grow by its full reward within this
MaxXpGain == 70
\* longest quiz bank of the generation specification
MaxBank == 4

-----------------------------------------------------------------------------
(* Values of the program *)

Views == {"home", "analyzing", "study", "quiz_setup", "quiz", "result", "dashboard"}

\* useState(null) of activeData, and selectedOpt's null
NullData == [null |-> TRUE]
NoOpt == -1
\* what an out-of-range array read yields
Undefined == [undefined |-> TRUE]

Counts == {3, 5, 10}
Difficulties == {"easy", "normal", "hard"}

DefaultErrorMsg == "analysis failed"
EmptyBankMsg == "no quiz data"
\* the message of the TypeError a rejected fetch carries
NetworkErrorMsg == "Failed to fetch"

InitXp == 1250
InitStreak == 12
InitTodayXp == 40
InitGoalXp == 100

Min(a, b) == IF a < b THEN a ELSE b
Max(a, b) == IF a > b THEN a ELSE b
Range(s) == {s[i] : i \in 1..Len(s)}

-----------------------------------------------------------------------------
(* Inputs: what the user types, what the collaborator answers *)

Urls == {"", "u"}
Times == 0..MaxTime
Today == "d1"

Question(p, a, d) == [question |-> p, options |-> 2, answer |-> a, difficulty |-> d]
QE == Question("q1", 0, "easy")
QE2 == Question("q2", 1, "easy")
QN == Question("q3", 0, "normal")
QH == Question("q4", 1, "hard")

Word(w, m) == [word |-> w, type |-> "n", meaning |-> m]
V1 == Word("w1", "m1")
V1b == Word("w1", "m2")
V2 == Word("w2", "m1")

Line(t) == [time |-> t]
Lines(ts) == [i \in 1..Len(ts) |-> Line(ts[i])]

\* the End-to-end bundle: a 2-line transcript and a 1-question bank
BundleA == [videoId |-> "a", script |-> Lines(<<0, 2>>),
            vocabulary |-> <<V1, V1b>>, quizBank |-> <<QE>>]
\* a longer transcript whose first line starts late, two easy questions
BundleB == [videoId |-> "b", script |-> Lines(<<1, 3, 3>>),
            vocabulary |-> <<V2>>, quizBank |-> <<QE, QH>>]
\* an empty bank
BundleC == [videoId |-> "c", script |-> Lines(<<1>>),
            vocabulary |-> <<>>, quizBank |-> <<>>]
\* the payload is duck-typed: fields may be missing
BundleD == [videoId |-> "d"]

\* a bank with every difficulty, and two easy questions whose answers differ
BundleE == [videoId |-> "e", script |-> Lines(<<0>>),
            vocabulary |-> <<>>, quizBank |-> <<QE, QE2, QN, QH>>]

\* the bundles of the whole application, of the study and of the quiz
Bundles == {BundleA, BundleC}
StudyBundles == {BundleA, BundleB, BundleC, BundleD}
QuizBundles == {BundleA, BundleE, BundleC, BundleD}

\* the details a failure response carries ("" : none)
Details == {"", "quota exceeded"}


-----------------------------------------------------------------------------
(* Initial state: the useState initialisers, lines 84-114 *)

Init ==
    /\ view = "home"
    /\ activeTab = "study"
    /\ urlInput = ""
    /\ activeData = NullData
    /\ isLoading = FALSE
    /\ errorMsg = ""
    /\ userStats = [xp |-> InitXp, streak |-> InitStreak, todayXp |-> InitTodayXp,
                    goalXp |-> InitGoalXp, savedWords |-> <<>>]
    /\ playing = FALSE
    /\ currentScriptIdx = 0
    /\ quizConfig = [count |-> 5, difficulty |-> "normal"]
    /\ quizSession = <<>>
    /\ currentQIdx = 0
    /\ selectedOpt = NoOpt
    /\ isAnswered = FALSE
    /\ isCorrect = FALSE
    /\ score = 0
    /\ inFlight = 0
    /\ playedSeconds = 0
    /\ alertMsg = ""

-----------------------------------------------------------------------------
(* Rendering: which controls exist in which view *)

\* the header rendered in the quiz too
HeaderViewsWithQuiz == {"home", "dashboard", "study", "quiz"}

\* line 569: the header (its logo navigates home)
HeaderViews == {"home", "dashboard", "study"}
\* line 579: the bottom navigation
NavViews == {"home", "dashboard"}

\* a property the payload may lack
HasField(d, f) == f \in DOMAIN d

-----------------------------------------------------------------------------
(* Home: the URL field and the analyze request *)

\* line 285: onChange of the input, which is disabled while loading
TypeUrl(u) ==
    /\ view = "home"
    /\ ~isLoading
    /\ u # urlInput
    /\ urlInput' = u
    /\ UNCHANGED <<view, activeTab, activeData, isLoading, errorMsg, userStats,
                   playing, currentScriptIdx, quizConfig, quizRun, inFlight,
                   playedSeconds, alertMsg>>

\* line 289: the submit button is disabled when the field is empty or loading
SubmitEnabled == urlInput # "" /\ ~isLoading

\* the loading flag left as it is
handleUrlSubmitNoLoading ==
    /\ IF urlInput = ""
       THEN UNCHANGED vars
       ELSE /\ errorMsg' = ""
            /\ view' = "analyzing"
            /\ inFlight' = inFlight + 1
            /\ UNCHANGED <<activeTab, urlInput, activeData, isLoading, userStats,
                           playing, currentScriptIdx, quizConfig, quizRun,
                           playedSeconds, alertMsg>>

\* the prior error left as it is
handleUrlSubmitKeepError ==
    /\ IF urlInput = ""
       THEN UNCHANGED vars
       ELSE /\ isLoading' = TRUE
            /\ view' = "analyzing"
            /\ inFlight' = inFlight + 1
            /\ UNCHANGED <<activeTab, urlInput, activeData, errorMsg, userStats,
                           playing, currentScriptIdx, quizConfig, quizRun,
                           playedSeconds, alertMsg>>

\* lines 118-132: handleUrlSubmit up to the await of fetch
handleUrlSubmit ==
    /\ IF urlInput = ""
       THEN UNCHANGED vars
       ELSE /\ isLoading' = TRUE
            /\ errorMsg' = ""
            /\ view' = "analyzing"
            /\ inFlight' = inFlight + 1
            /\ UNCHANGED <<activeTab, urlInput, activeData, userStats, playing,
                           currentScriptIdx, quizConfig, quizRun, playedSeconds,
                           alertMsg>>

\* line 289: a click on the submit button of HomeView
SubmitClick ==
    /\ view = "home"
    /\ SubmitEnabled
    /\ handleUrlSubmit

\* lines 142-145: the response with its thumbnail locator added
Normalized(data) ==
    [f \in DOMAIN data \cup {"thumbnail"} |->
        IF f = "thumbnail" THEN data.videoId ELSE data[f]]

\* lines 139-148, 153-155: the request resolves with a success response
AnalyzeSuccess(data) ==
    /\ inFlight > 0
    /\ inFlight' = inFlight - 1
    /\ activeData' = Normalized(data)
    /\ view' = "study"
    /\ playing' = TRUE
    /\ isLoading' = FALSE
    /\ playedSeconds' = 0
    /\ UNCHANGED <<activeTab, urlInput, errorMsg, userStats, currentScriptIdx,
                   quizConfig, quizRun, alertMsg>>

\* the catch block without the finally block: the loading flag is not cleared
AnalyzeCatchNoFinally(msg) ==
    /\ inFlight > 0
    /\ inFlight' = inFlight - 1
    /\ errorMsg' = msg
    /\ view' = "home"
    /\ playedSeconds' = 0
    /\ UNCHANGED <<activeTab, urlInput, activeData, isLoading, userStats, playing,
                   currentScriptIdx, quizConfig, quizRun, alertMsg>>

\* lines 149-155: the catch and finally blocks, reached with an Error of message msg
AnalyzeCatch(msg) ==
    /\ inFlight > 0
    /\ inFlight' = inFlight - 1
    /\ errorMsg' = msg
    /\ view' = "home"
    /\ isLoading' = FALSE
    /\ playedSeconds' = 0
    /\ UNCHANGED <<activeTab, urlInput, activeData, userStats, playing,
                   currentScriptIdx, quizConfig, quizRun, alertMsg>>

\* line 136: errData.detail || default
ErrorOfDetail(detail) == IF detail # "" THEN detail ELSE DefaultErrorMsg

\* lines 134-137: a response whose status is not ok
AnalyzeHttpError(detail) == AnalyzeCatch(ErrorOfDetail(detail))

\* line 126: fetch itself rejects (no response at all)
AnalyzeNetworkError == AnalyzeCatch(NetworkErrorMsg)

-----------------------------------------------------------------------------
(* Navigation chrome *)

\* line 243: the header's logo
HeaderHome ==
    /\ view \in HeaderViews
    /\ view' = "home"
    /\ playedSeconds' = 0
    /\ UNCHANGED <<activeTab, urlInput, activeData, isLoading, errorMsg, userStats,
                   playing, currentScriptIdx, quizConfig, quizRun, inFlight, alertMsg>>

\* lines 581, 585: the two buttons of the bottom navigation
NavTo(v) ==
    /\ view \in NavViews
    /\ v \in {"home", "dashboard"}
    /\ view' = v
    /\ UNCHANGED <<activeTab, urlInput, activeData, isLoading, errorMsg, userStats,
                   playing, currentScriptIdx, quizConfig, quizRun, inFlight,
                   playedSeconds, alertMsg>>

\* lines 521-522: the two buttons of the result view
ResultTo(v) ==
    /\ view = "result"
    /\ v \in {"dashboard", "home"}
    /\ view' = v
    /\ UNCHANGED <<activeTab, urlInput, activeData, isLoading, errorMsg, userStats,
                   playing, currentScriptIdx, quizConfig, quizRun, inFlight,
                   playedSeconds, alertMsg>>


-----------------------------------------------------------------------------
(* Study view: the transcript synchronizer, the vocabulary, the way on *)

\* line 327: script.findIndex(line => line.time > playedSeconds), 0-based, -1 if none
FindIndexAfter(script, t) ==
    LET hits == {i \in 1..Len(script) : script[i].time > t}
    IN  IF hits = {} THEN -1
        ELSE (CHOOSE i \in hits : \A j \in hits : i <= j) - 1

\* line 328: the condition under which the tick calls setCurrentScriptIdx
TickEmits(script, t, cur) ==
    LET idx == FindIndexAfter(script, t)
    IN  idx # -1 /\ idx - 1 # cur

\* line 329: the index the tick computes and hands to setCurrentScriptIdx
TickIndex(script, t) == Max(0, FindIndexAfter(script, t) - 1)

\* lines 328-330: the active index after a tick at time t
SyncedIdx(script, t, cur) ==
    IF TickEmits(script, t, cur) THEN TickIndex(script, t) ELSE cur

\* lines 325-331: onProgress of the player, which StudyView mounts
onProgress(t) ==
    /\ view = "study"
    /\ playedSeconds' = t
    /\ currentScriptIdx' =
          IF ~HasField(activeData, "script") THEN currentScriptIdx
          ELSE SyncedIdx(activeData.script, t, currentScriptIdx)
    /\ UNCHANGED <<view, activeTab, urlInput, activeData, isLoading, errorMsg,
                   userStats, playing, quizConfig, quizRun, inFlight, alertMsg>>

\* lines 158-164, 353-356: a click on line index of the script tab
handleSeek(index) ==
    /\ view = "study"
    /\ activeTab = "study"
    /\ HasField(activeData, "script")
    /\ index \in 0..(Len(activeData.script) - 1)
    /\ playedSeconds' = activeData.script[index + 1].time
    /\ playing' = TRUE
    /\ currentScriptIdx' = index
    /\ UNCHANGED <<view, activeTab, urlInput, activeData, isLoading, errorMsg,
                   userStats, quizConfig, quizRun, inFlight, alertMsg>>

\* lines 337, 343: the two tab buttons
SetActiveTab(tab) ==
    /\ view = "study"
    /\ tab \in {"study", "words"}
    /\ tab # activeTab
    /\ activeTab' = tab
    /\ UNCHANGED <<view, urlInput, activeData, isLoading, errorMsg, userStats,
                   playing, currentScriptIdx, quizConfig, quizRun, inFlight,
                   playedSeconds, alertMsg>>

\* the saved entries compared by word and meaning
IsSavedWithMeaning(savedWords, wordObj) ==
    \E i \in 1..Len(savedWords) :
        /\ savedWords[i].word = wordObj.word
        /\ savedWords[i].meaning = wordObj.meaning

\* line 167: savedWords.find(w => w.word === wordObj.word)
IsSaved(savedWords, wordObj) ==
    \E i \in 1..Len(savedWords) : savedWords[i].word = wordObj.word

\* line 170: { ...wordObj, date }
Dated(wordObj, date) ==
    [word |-> wordObj.word, type |-> wordObj.type, meaning |-> wordObj.meaning,
     date |-> date]

\* lines 166-173: saveWord
SavedAfter(savedWords, wordObj, date) ==
    IF ~IsSaved(savedWords, wordObj)
    THEN Append(savedWords, Dated(wordObj, date))
    ELSE savedWords

\* lines 382-392: a click on the star of vocabulary entry i (0-based) of the words tab
saveWord(i) ==
    /\ view = "study"
    /\ activeTab = "words"
    /\ HasField(activeData, "vocabulary")
    /\ i \in 0..(Len(activeData.vocabulary) - 1)
    /\ userStats' = [userStats EXCEPT
          !.savedWords = SavedAfter(@, activeData.vocabulary[i + 1], Today)]
    /\ UNCHANGED <<view, activeTab, urlInput, activeData, isLoading, errorMsg,
                   playing, currentScriptIdx, quizConfig, quizRun, inFlight,
                   playedSeconds, alertMsg>>

\* lines 175-178, 404: startQuizSetup
startQuizSetup ==
    /\ view = "study"
    /\ playing' = FALSE
    /\ view' = "quiz_setup"
    /\ playedSeconds' = 0
    /\ UNCHANGED <<activeTab, urlInput, activeData, isLoading, errorMsg, userStats,
                   currentScriptIdx, quizConfig, quizRun, inFlight, alertMsg>>


-----------------------------------------------------------------------------
(* Quiz setup: the configuration and the Session Builder *)

\* line 415: the close control of QuizSetupView
QuizSetupClose ==
    /\ view = "quiz_setup"
    /\ view' = "study"
    /\ UNCHANGED <<activeTab, urlInput, activeData, isLoading, errorMsg, userStats,
                   playing, currentScriptIdx, quizConfig, quizRun, inFlight,
                   playedSeconds, alertMsg>>

\* the counts the user of the full application picks among those of line 422
CountChoices == {n \in Counts : n <= MaxCount}

\* line 423: a count chip
SetCount(num) ==
    /\ view = "quiz_setup"
    /\ num # quizConfig.count
    /\ quizConfig' = [quizConfig EXCEPT !.count = num]
    /\ UNCHANGED <<view, activeTab, urlInput, activeData, isLoading, errorMsg,
                   userStats, playing, currentScriptIdx, quizRun, inFlight,
                   playedSeconds, alertMsg>>

\* line 431: a difficulty chip
SetDifficulty(lv) ==
    /\ view = "quiz_setup"
    /\ lv # quizConfig.difficulty
    /\ quizConfig' = [quizConfig EXCEPT !.difficulty = lv]
    /\ UNCHANGED <<view, activeTab, urlInput, activeData, isLoading, errorMsg,
                   userStats, playing, currentScriptIdx, quizRun, inFlight,
                   playedSeconds, alertMsg>>

\* the test of the length left out
NoQuizBankField(data) ==
    \/ data = NullData
    \/ ~HasField(data, "quizBank")

\* line 182: !activeData?.quizBank || activeData.quizBank.length === 0
NoQuizBank(data) ==
    \/ data = NullData
    \/ ~HasField(data, "quizBank")
    \/ Len(data.quizBank) = 0

\* a filter that keeps every question
FilterNothing(bank, difficulty) == SelectSeq(bank, LAMBDA q : TRUE)

\* line 189: quizBank.filter(q => q.difficulty === difficulty), a new array
FilterDifficulty(bank, difficulty) ==
    SelectSeq(bank, LAMBDA q : q.difficulty = difficulty)

\* the first position of each distinct element of an array
FirstPositions(qs) == {i \in 1..Len(qs) : \A j \in 1..(i - 1) : qs[j] # qs[i]}

\* line 194: questions[Math.floor(Math.random() * questions.length)]: any element
\* of the array as it is now, or undefined when the array is empty
RandomPicks(qs) == IF Len(qs) = 0 THEN {Undefined} ELSE Range(qs)

\* an if in place of the while: one element is pushed at most
PadOnce(qs, count) ==
    IF ~(Len(qs) < count) THEN {qs}
    ELSE {Append(qs, q) : q \in RandomPicks(qs)}

\* lines 193-195: the arrays the padding loop can end with
RECURSIVE PadOutcomes(_, _)
PadOutcomes(qs, count) ==
    IF ~(Len(qs) < count) THEN {qs}
    ELSE UNION {PadOutcomes(Append(qs, q), count) : q \in RandomPicks(qs)}

RemoveAt(qs, i) == SubSeq(qs, 1, i - 1) \o SubSeq(qs, i + 1, Len(qs))

\* line 199: sort(() => Math.random() - 0.5): the array in any order
RECURSIVE SortOutcomes(_)
SortOutcomes(qs) ==
    IF Len(qs) = 0 THEN {<<>>}
    ELSE UNION {{<<qs[i]>> \o rest : rest \in SortOutcomes(RemoveAt(qs, i))} :
                    i \in FirstPositions(qs)}

\* line 200: slice(0, count)
Slice(qs, count) == SubSeq(qs, 1, Min(count, Len(qs)))

\* line 201: { ...q, id: i }
WithId(q, i) ==
    [f \in (DOMAIN q \cup {"id"}) \ {"undefined"} |-> IF f = "id" THEN i ELSE q[f]]

\* line 201: map((q, i) => ({ ...q, id: i }))
MapIds(qs) == [i \in 1..Len(qs) |-> WithId(qs[i], i - 1)]

\* line 190: with no match, questions is the bank itself and not a copy
UsesBankItself(bank, difficulty) == Len(FilterDifficulty(bank, difficulty)) = 0

\* lines 189-190: the available set
Available(bank, difficulty) ==
    IF UsesBankItself(bank, difficulty) THEN bank
    ELSE FilterDifficulty(bank, difficulty)

\* lines 189-199: the arrays questions can be after the padding and the sort
Shuffled(bank, config) ==
    UNION {SortOutcomes(padded) :
              padded \in PadOutcomes(Available(bank, config.difficulty), config.count)}

\* lines 189-199: push and sort act in place, so they act on the bank when
\* questions is the bank itself
BankAfter(data, config, sorted) ==
    IF UsesBankItself(data.quizBank, config.difficulty)
    THEN [data EXCEPT !.quizBank = sorted]
    ELSE data

\* the question index left where the last attempt stopped
generateQuizKeepIdx ==
    IF NoQuizBank(activeData)
    THEN /\ alertMsg' = EmptyBankMsg
         /\ UNCHANGED <<view, activeTab, urlInput, activeData, isLoading, errorMsg,
                        userStats, playing, currentScriptIdx, quizConfig, quizRun,
                        inFlight, playedSeconds>>
    ELSE \E sorted \in Shuffled(activeData.quizBank, quizConfig) :
            /\ activeData' = BankAfter(activeData, quizConfig, sorted)
            /\ quizSession' = MapIds(Slice(sorted, quizConfig.count))
            /\ score' = 0
            /\ selectedOpt' = NoOpt
            /\ isAnswered' = FALSE
            /\ view' = "quiz"
            /\ UNCHANGED <<activeTab, urlInput, isLoading, errorMsg, userStats,
                           playing, currentScriptIdx, quizConfig, isCorrect,
                           currentQIdx, inFlight, playedSeconds, alertMsg>>

\* lines 180-209: generateQuiz
generateQuiz ==
    IF NoQuizBank(activeData)
    THEN /\ alertMsg' = EmptyBankMsg
         /\ UNCHANGED <<view, activeTab, urlInput, activeData, isLoading, errorMsg,
                        userStats, playing, currentScriptIdx, quizConfig, quizRun,
                        inFlight, playedSeconds>>
    ELSE \E sorted \in Shuffled(activeData.quizBank, quizConfig) :
            /\ activeData' = BankAfter(activeData, quizConfig, sorted)
            /\ quizSession' = MapIds(Slice(sorted, quizConfig.count))
            /\ currentQIdx' = 0
            /\ score' = 0
            /\ selectedOpt' = NoOpt
            /\ isAnswered' = FALSE
            /\ view' = "quiz"
            /\ UNCHANGED <<activeTab, urlInput, isLoading, errorMsg, userStats,
                           playing, currentScriptIdx, quizConfig, isCorrect,
                           inFlight, playedSeconds, alertMsg>>

\* line 436: a click on the generate button of QuizSetupView
GenerateClick ==
    /\ view = "quiz_setup"
    /\ generateQuiz

\* line 183: alert() returns when the user closes the box
DismissAlert ==
    /\ alertMsg # ""
    /\ alertMsg' = ""
    /\ UNCHANGED <<view, activeTab, urlInput, activeData, isLoading, errorMsg,
                   userStats, playing, currentScriptIdx, quizConfig, quizRun,
                   inFlight, playedSeconds>>

-----------------------------------------------------------------------------
(* Quiz view: the Quiz Runner and the Progress Accumulator *)

\* line 442: quizSession[currentQIdx], undefined when out of range
HasQuestion == currentQIdx \in 0..(Len(quizSession) - 1)
CurrentQ == IF HasQuestion THEN quizSession[currentQIdx + 1] ELSE Undefined

\* line 449: the close control of QuizView
QuizClose ==
    /\ view = "quiz"
    /\ HasQuestion
    /\ view' = "study"
    /\ UNCHANGED <<activeTab, urlInput, activeData, isLoading, errorMsg, userStats,
                   playing, currentScriptIdx, quizConfig, quizRun, inFlight,
                   playedSeconds, alertMsg>>

\* the option click without the answered guard
SelectOptionAnytime(idx) ==
    /\ view = "quiz"
    /\ HasQuestion
    /\ idx \in 0..(CurrentQ.options - 1)
    /\ idx # selectedOpt
    /\ selectedOpt' = idx
    /\ UNCHANGED <<view, activeTab, urlInput, activeData, isLoading, errorMsg,
                   userStats, playing, currentScriptIdx, quizConfig, quizSession,
                   currentQIdx, isAnswered, isCorrect, score, inFlight,
                   playedSeconds, alertMsg>>

\* line 466: a click on option idx, ignored once answered
SelectOption(idx) ==
    /\ view = "quiz"
    /\ HasQuestion
    /\ idx \in 0..(CurrentQ.options - 1)
    /\ ~isAnswered
    /\ idx # selectedOpt
    /\ selectedOpt' = idx
    /\ UNCHANGED <<view, activeTab, urlInput, activeData, isLoading, errorMsg,
                   userStats, playing, currentScriptIdx, quizConfig, quizSession,
                   currentQIdx, isAnswered, isCorrect, score, inFlight,
                   playedSeconds, alertMsg>>

\* the selection compared with the question's sequence identifier
checkAnswerById ==
    LET correct == CurrentQ.id = selectedOpt
    IN  /\ isCorrect' = correct
        /\ isAnswered' = TRUE
        /\ score' = IF correct THEN score + 1 ELSE score
        /\ UNCHANGED <<view, activeTab, urlInput, activeData, isLoading, errorMsg,
                       userStats, playing, currentScriptIdx, quizConfig,
                       quizSession, currentQIdx, selectedOpt, inFlight,
                       playedSeconds, alertMsg>>

\* lines 211-217: checkAnswer
checkAnswer ==
    LET correct == CurrentQ.answer = selectedOpt
    IN  /\ isCorrect' = correct
        /\ isAnswered' = TRUE
        /\ score' = IF correct THEN score + 1 ELSE score
        /\ UNCHANGED <<view, activeTab, urlInput, activeData, isLoading, errorMsg,
                       userStats, playing, currentScriptIdx, quizConfig,
                       quizSession, currentQIdx, selectedOpt, inFlight,
                       playedSeconds, alertMsg>>

\* the check button left in place once the question is answered
CheckClickAgain ==
    /\ view = "quiz"
    /\ HasQuestion
    /\ selectedOpt # NoOpt
    /\ checkAnswer

\* lines 490-491: the check button, shown while unanswered, disabled with no selection
CheckClick ==
    /\ view = "quiz"
    /\ HasQuestion
    /\ ~isAnswered
    /\ selectedOpt # NoOpt
    /\ checkAnswer

\* the flat completion bonus left out
GainedXpNoBonus(s) == s * 10

\* line 230: score * 10 + 20
GainedXp(s) == s * 10 + 20

\* today's total left out of the award
finishQuizXpOnly ==
    /\ userStats' = [userStats EXCEPT !.xp = @ + GainedXp(score)]
    /\ view' = "result"
    /\ UNCHANGED <<activeTab, urlInput, activeData, isLoading, errorMsg, playing,
                   currentScriptIdx, quizConfig, quizRun, inFlight, playedSeconds,
                   alertMsg>>

\* the streak counted up with the award
finishQuizWithStreak ==
    /\ userStats' = [userStats EXCEPT !.xp = @ + GainedXp(score),
                                      !.todayXp = @ + GainedXp(score),
                                      !.streak = @ + 1]
    /\ view' = "result"
    /\ UNCHANGED <<activeTab, urlInput, activeData, isLoading, errorMsg, playing,
                   currentScriptIdx, quizConfig, quizRun, inFlight, playedSeconds,
                   alertMsg>>

\* lines 229-237: finishQuiz
finishQuiz ==
    /\ userStats' = [userStats EXCEPT !.xp = @ + GainedXp(score),
                                      !.todayXp = @ + GainedXp(score)]
    /\ view' = "result"
    /\ UNCHANGED <<activeTab, urlInput, activeData, isLoading, errorMsg, playing,
                   currentScriptIdx, quizConfig, quizRun, inFlight, playedSeconds,
                   alertMsg>>

\* the last-question test off by one
nextQuestionOffByOne ==
    IF currentQIdx < Len(quizSession)
    THEN /\ currentQIdx' = currentQIdx + 1
         /\ selectedOpt' = NoOpt
         /\ isAnswered' = FALSE
         /\ UNCHANGED <<view, activeTab, urlInput, activeData, isLoading, errorMsg,
                        userStats, playing, currentScriptIdx, quizConfig,
                        quizSession, isCorrect, score, inFlight, playedSeconds,
                        alertMsg>>
    ELSE finishQuiz

\* the increment of the index left out
nextQuestionNoStep ==
    IF currentQIdx < Len(quizSession) - 1
    THEN /\ selectedOpt' = NoOpt
         /\ isAnswered' = FALSE
         /\ UNCHANGED <<view, activeTab, urlInput, activeData, isLoading, errorMsg,
                        userStats, playing, currentScriptIdx, quizConfig,
                        quizSession, currentQIdx, isCorrect, score, inFlight,
                        playedSeconds, alertMsg>>
    ELSE finishQuiz

\* lines 219-227: nextQuestion
nextQuestion ==
    IF currentQIdx < Len(quizSession) - 1
    THEN /\ currentQIdx' = currentQIdx + 1
         /\ selectedOpt' = NoOpt
         /\ isAnswered' = FALSE
         /\ UNCHANGED <<view, activeTab, urlInput, activeData, isLoading, errorMsg,
                        userStats, playing, currentScriptIdx, quizConfig,
                        quizSession, isCorrect, score, inFlight, playedSeconds,
                        alertMsg>>
    ELSE finishQuiz

\* lines 492-495: the next button, shown once answered
NextClick ==
    /\ view = "quiz"
    /\ HasQuestion
    /\ isAnswered
    /\ nextQuestion

-----------------------------------------------------------------------------
(* The application: every event the rendered view offers *)

\* the reward of the quiz about to be generated fits the bound on xp
XpRoom == userStats.xp - InitXp + GainedXp(quizConfig.count) <= MaxXpGain

\* alert() blocks the page: no event is handled while the box is open
Idle == alertMsg = ""

Next ==
    \/ DismissAlert
    \/ Idle /\ \E u \in Urls : TypeUrl(u)
    \/ Idle /\ SubmitClick
    \/ Idle /\ \E data \in Bundles : AnalyzeSuccess(data)
    \/ Idle /\ \E detail \in Details : AnalyzeHttpError(detail)
    \/ Idle /\ AnalyzeNetworkError
    \/ Idle /\ HeaderHome
    \/ Idle /\ \E v \in Views : NavTo(v)
    \/ Idle /\ \E t \in {0, MaxTime} : onProgress(t)
    \/ Idle /\ \E i \in 0..2 : handleSeek(i)
    \/ Idle /\ \E tab \in {"study", "words"} : SetActiveTab(tab)
    \/ Idle /\ \E i \in 0..1 : saveWord(i)
    \/ Idle /\ startQuizSetup
    \/ Idle /\ QuizSetupClose
    \/ Idle /\ \E num \in CountChoices : SetCount(num)
    \/ Idle /\ \E lv \in Difficulties : SetDifficulty(lv)
    \/ Idle /\ XpRoom /\ GenerateClick
    \/ Idle /\ QuizClose
    \/ Idle /\ \E idx \in 0..1 : SelectOption(idx)
    \/ Idle /\ CheckClick
    \/ Idle /\ NextClick
    \/ Idle /\ \E v \in Views : ResultTo(v)

\* the whole application, on the two smallest bundles
Spec == Init /\ [][Next]_vars

-----------------------------------------------------------------------------
(* The learner who studies and never generates a quiz: more bundles, every tick *)

NextStudy ==
    \/ Idle /\ \E u \in Urls : TypeUrl(u)
    \/ Idle /\ SubmitClick
    \/ Idle /\ \E data \in StudyBundles : AnalyzeSuccess(data)
    \/ Idle /\ \E detail \in Details : AnalyzeHttpError(detail)
    \/ Idle /\ AnalyzeNetworkError
    \/ Idle /\ HeaderHome
    \/ Idle /\ \E v \in Views : NavTo(v)
    \/ Idle /\ \E t \in Times : onProgress(t)
    \/ Idle /\ \E i \in 0..2 : handleSeek(i)
    \/ Idle /\ \E tab \in {"study", "words"} : SetActiveTab(tab)
    \/ Idle /\ \E i \in 0..1 : saveWord(i)
    \/ Idle /\ startQuizSetup
    \/ Idle /\ QuizSetupClose

SpecStudy == Init /\ [][NextStudy]_vars

\* the pending request resolves: the fetch promise settles, with a success
\* response, a failure response or a rejection
Resolution ==
    \/ \E data \in StudyBundles : AnalyzeSuccess(data)
    \/ \E detail \in Details : AnalyzeHttpError(detail)
    \/ AnalyzeNetworkError

\* the studying learner, with every request eventually resolved
SpecAnalyze == Init /\ [][NextStudy]_vars /\ WF_vars(Idle /\ Resolution)

-----------------------------------------------------------------------------
(* The learner in the quiz: from quiz setup, just entered, on any quiz bundle *)

InitQuiz ==
    /\ view = "quiz_setup"
    /\ activeTab = "study"
    /\ urlInput = "u"
    /\ activeData \in {Normalized(data) : data \in QuizBundles}
    /\ isLoading = FALSE
    /\ errorMsg = ""
    /\ userStats = [xp |-> InitXp, streak |-> InitStreak, todayXp |-> InitTodayXp,
                    goalXp |-> InitGoalXp, savedWords |-> <<>>]
    /\ playing = FALSE
    /\ currentScriptIdx = 0
    /\ quizConfig = [count |-> 5, difficulty |-> "normal"]
    /\ quizSession = <<>>
    /\ currentQIdx = 0
    /\ selectedOpt = NoOpt
    /\ isAnswered = FALSE
    /\ isCorrect = FALSE
    /\ score = 0
    /\ inFlight = 0
    /\ playedSeconds = 0
    /\ alertMsg = ""

NextQuiz ==
    \/ DismissAlert
    \/ Idle /\ startQuizSetup
    \/ Idle /\ QuizSetupClose
    \/ Idle /\ \E num \in CountChoices : SetCount(num)
    \/ Idle /\ \E lv \in Difficulties : SetDifficulty(lv)
    \/ Idle /\ XpRoom /\ GenerateClick
    \/ Idle /\ QuizClose
    \/ Idle /\ \E idx \in 0..1 : SelectOption(idx)
    \/ Idle /\ CheckClick
    \/ Idle /\ NextClick
    \/ Idle /\ \E v \in Views : ResultTo(v)

SpecQuiz == InitQuiz /\ [][NextQuiz]_vars

-----------------------------------------------------------------------------
(* The Session Builder alone: any bank of up to MaxBank easy and hard questions,  *)
(* any configuration, any number of generations from the same bundle              *)

GenBanks == UNION {[1..n -> {QE, QH}] : n \in 0..MaxBank}

InitGen ==
    /\ view = "quiz_setup"
    /\ activeTab = "study"
    /\ urlInput = "u"
    /\ activeData \in
          {Normalized([videoId |-> "g", script |-> Lines(<<0>>),
                       vocabulary |-> <<>>, quizBank |-> bank]) : bank \in GenBanks}
    /\ isLoading = FALSE
    /\ errorMsg = ""
    /\ userStats = [xp |-> InitXp, streak |-> InitStreak, todayXp |-> InitTodayXp,
                    goalXp |-> InitGoalXp, savedWords |-> <<>>]
    /\ playing = FALSE
    /\ currentScriptIdx = 0
    /\ quizConfig \in [count : Counts, difficulty : Difficulties]
    /\ quizSession = <<>>
    /\ currentQIdx = 0
    /\ selectedOpt = NoOpt
    /\ isAnswered = FALSE
    /\ isCorrect = FALSE
    /\ score = 0
    /\ inFlight = 0
    /\ playedSeconds = 0
    /\ alertMsg = ""

NextGen ==
    \/ DismissAlert
    \/ Idle /\ GenerateClick
    \/ Idle /\ QuizClose
    \/ Idle /\ startQuizSetup

SpecGen == InitGen /\ [][NextGen]_vars

-----------------------------------------------------------------------------
(* The learner who does not abandon: configures, generates, and then keeps     *)
(* selecting, checking and advancing; the close controls are never used        *)

NextRun ==
    \/ DismissAlert
    \/ Idle /\ \E num \in CountChoices : SetCount(num)
    \/ Idle /\ \E lv \in Difficulties : SetDifficulty(lv)
    \/ Idle /\ XpRoom /\ GenerateClick
    \/ Idle /\ \E idx \in 0..1 : SelectOption(idx)
    \/ Idle /\ CheckClick
    \/ Idle /\ NextClick
    \/ Idle /\ \E v \in Views : ResultTo(v)

\* the learner keeps going: a click that stays possible is eventually made
RunFairness ==
    /\ WF_vars(Idle /\ \E idx \in 0..1 : SelectOption(idx))
    /\ WF_vars(Idle /\ CheckClick)
    /\ WF_vars(Idle /\ NextClick)

SpecRun == InitQuiz /\ [][NextRun]_vars /\ RunFairness

-----------------------------------------------------------------------------
(* Properties *)

\* the transcript is ordered by non-decreasing timestamp
SortedScript(script) ==
    \A i \in 1..Len(script) : \A j \in i..Len(script) : script[i].time <= script[j].time

\* line i (0-based) is the one playing at time t: the last line that has started,
\* or the first line while none has
ActiveLineAt(script, t, i) ==
    /\ i \in 0..(Len(script) - 1)
    /\ \/ t < script[1].time /\ i = 0
       \/ /\ script[i + 1].time <= t
          /\ i + 1 < Len(script) => t < script[i + 2].time

\* C1: after a progress tick at time t on a non-empty sorted transcript, the
\* active line index i satisfies transcript[i].time <= t < transcript[i+1].time,
\* or is the last index when t >= transcript[last].time, whatever it was before.
C1_TickActivatesLine ==
    [][\A t \in Times :
          (/\ onProgress(t)
           /\ HasField(activeData, "script")
           /\ Len(activeData.script) > 0
           /\ SortedScript(activeData.script))
          => ActiveLineAt(activeData.script, t, currentScriptIdx')]_vars

\* C2: the quiz bank of the bundle is never mutated: the bundle changes only
\* when a successful analyze response replaces it.
C2_BankNeverMutated ==
    [][\/ activeData' = activeData
       \/ \E data \in Bundles : AnalyzeSuccess(data)]_vars

\* the bank holds at least one question
C3_HasBank ==
    /\ activeData # NullData
    /\ "quizBank" \in DOMAIN activeData
    /\ activeData.quizBank # <<>>

\* C3: for any bank of size n >= 1, any difficulty and any count k of {3,5,10},
\* generateQuiz terminates and builds a session of exactly k questions, on the
\* first generation from a bundle and on every later one.
C3_SessionLength ==
    /\ []((view = "quiz_setup" /\ C3_HasBank)
            => Shuffled(activeData.quizBank, quizConfig) # {})
    /\ [][(view = "quiz_setup" /\ C3_HasBank /\ quizRun' # quizRun)
          => (view' = "quiz" /\ Len(quizSession') = quizConfig.count)]_vars
    /\ [](view = "quiz" => Len(quizSession) = quizConfig.count)

\* a session of 10 padded from a bank of two different questions
C3_Witness ==
    /\ view = "quiz"
    /\ quizConfig.count = 10
    /\ Len(quizSession) = 10
    /\ Len(activeData.quizBank) = 10
    /\ Cardinality(Range(activeData.quizBank)) = 2

\* the router's table as the claim lists it
C4_ClaimedTable ==
    {<<"home", "analyzing">>, <<"analyzing", "study">>, <<"analyzing", "home">>,
     <<"study", "quiz_setup">>, <<"quiz_setup", "quiz">>, <<"quiz", "result">>,
     <<"result", "dashboard">>, <<"result", "home">>,
     <<"home", "dashboard">>, <<"dashboard", "home">>}

\* the claim's table and the three transitions the code adds: the header's logo
\* on study, the close controls of quiz setup and of quiz
C4_Table ==
    C4_ClaimedTable \cup
    {<<"study", "home">>, <<"quiz_setup", "study">>, <<"quiz", "study">>}

\* C4 as claimed: every change of the view is a transition of the claimed table
\* (no way out of study, quiz setup or quiz but forward).
C4_ClaimedTransitions ==
    [][view' # view => <<view, view'>> \in C4_ClaimedTable]_vars

\* C4: every change of the view is one of: home->analyzing, analyzing->study,
\* analyzing->home, study->quiz_setup, study->home, quiz_setup->quiz,
\* quiz_setup->study, quiz->result, quiz->study, result->dashboard,
\* result->home, home<->dashboard.
C4_Transitions ==
    [][view' # view => <<view, view'>> \in C4_Table]_vars

\* back in study with a quiz abandoned half way: the close control was used
C4_Witness ==
    /\ view = "study"
    /\ Len(quizSession) > 0
    /\ currentQIdx > 0

\* C5: when a quiz attempt completes with final score s, xp and todayXp each
\* grow by exactly s*10+20, whatever the difficulty and the count, s being the
\* score with the last answer counted: the score grows by one with each
\* question answered correctly, and changes otherwise only when a new quiz
\* resets it.
C5_Reward ==
    /\ [][(view = "quiz" /\ view' = "result")
          => /\ isAnswered /\ currentQIdx = Len(quizSession) - 1
             /\ score \in 0..Len(quizSession)
             /\ score' = score
             /\ userStats'.xp = userStats.xp + score * 10 + 20
             /\ userStats'.todayXp = userStats.todayXp + score * 10 + 20]_vars
    /\ [][(~isAnswered /\ isAnswered')
          => score' = score + (IF CurrentQ.answer = selectedOpt THEN 1 ELSE 0)]_vars
    /\ [][(score' # score /\ ~(~isAnswered /\ isAnswered'))
          => (view = "quiz_setup" /\ view' = "quiz" /\ score' = 0)]_vars
    /\ [][userStats'.xp # userStats.xp => (view = "quiz" /\ view' = "result")]_vars

\* the Reward formula's example: score 3 adds 50 to both totals
C5_Witness ==
    /\ view = "result"
    /\ score = 3
    /\ userStats.xp = InitXp + 50
    /\ userStats.todayXp = InitTodayXp + 50

\* the positions of the bank whose question has the requested difficulty
C6_Matching == {j \in 1..Len(activeData.quizBank) :
                   activeData.quizBank[j].difficulty = quizConfig.difficulty}

\* session question sq is bank question q with the sequence identifier id
C6_IsCopy(sq, q, id) ==
    /\ DOMAIN sq = DOMAIN q \cup {"id"}
    /\ sq.id = id
    /\ \A f \in DOMAIN q : sq[f] = q[f]

\* C6: if a bank entry has the requested difficulty, no question of another
\* difficulty is in the session unless fewer than k entries match; and every
\* session question is a copy of a question of the available set (the matching
\* entries, or the whole bank when none matches).
C6_DifficultyPreference ==
    [][(view = "quiz_setup" /\ view' = "quiz")
       => LET bank == activeData.quizBank
              available == IF C6_Matching # {} THEN C6_Matching ELSE 1..Len(bank)
          IN  /\ Cardinality(C6_Matching) >= quizConfig.count
                 => \A i \in 1..Len(quizSession') :
                       quizSession'[i].difficulty = quizConfig.difficulty
              /\ \A i \in 1..Len(quizSession') :
                    \E j \in available : C6_IsCopy(quizSession'[i], bank[j], i - 1)]_vars

\* a session of 3 from a bank with 3 easy questions and a hard one
C6_Witness ==
    /\ view = "quiz"
    /\ quizConfig = [count |-> 3, difficulty |-> "easy"]
    /\ Len(activeData.quizBank) = 4
    /\ Cardinality(C6_Matching) = 3
    /\ Len(quizSession) = 3

\* the questions answered so far in the attempt
C7_Answered == currentQIdx + (IF isAnswered THEN 1 ELSE 0)

\* C7: in every state 0 <= score <= questions answered so far <= session
\* length, and the score never decreases but by the generation of a new quiz,
\* which resets it to 0.
C7_ScoreBound ==
    /\ [](/\ 0 <= score
          /\ score <= C7_Answered
          /\ C7_Answered <= Len(quizSession))
    /\ [][score' < score
          => (view = "quiz_setup" /\ view' = "quiz" /\ score' = 0)]_vars

\* every question of a session of 5 answered correctly
C7_Witness ==
    /\ view = "quiz"
    /\ Len(quizSession) = 5
    /\ C7_Answered = 5
    /\ score = 5

\* the words of the saved entries, in order
C8_Words(savedWords) == [i \in 1..Len(savedWords) |-> savedWords[i].word]

\* C8: saving is idempotent by surface form: no two saved entries have the same
\* word, a save of a word that is saved changes nothing, and no saved entry is
\* ever removed or changed.
C8_IdempotentSave ==
    /\ [](\A i, j \in 1..Len(userStats.savedWords) :
             userStats.savedWords[i].word = userStats.savedWords[j].word => i = j)
    /\ [][/\ Len(userStats'.savedWords) >= Len(userStats.savedWords)
          /\ SubSeq(userStats'.savedWords, 1, Len(userStats.savedWords))
                = userStats.savedWords
          /\ \A i \in 0..1 :
                (/\ saveWord(i)
                 /\ activeData.vocabulary[i + 1].word
                       \in Range(C8_Words(userStats.savedWords)))
                => userStats' = userStats]_vars

\* two words saved from two videos, on a vocabulary whose first word is saved
C8_Witness ==
    /\ view = "study"
    /\ activeTab = "words"
    /\ Len(userStats.savedWords) = 2
    /\ HasField(activeData, "vocabulary")
    /\ Len(activeData.vocabulary) = 2
    /\ activeData.vocabulary[2].word \in Range(C8_Words(userStats.savedWords))

\* the bundle has no bank, or an empty one
C9_EmptyBank ==
    \/ activeData = NullData
    \/ "quizBank" \notin DOMAIN activeData
    \/ activeData.quizBank = <<>>

\* C9: with a bank of size 0 or no bank, quiz generation reports EmptyBank, the
\* view stays quiz_setup, and the session and the run state (index, selection,
\* answered flag, score) are unchanged.
C9_EmptyBankRejected ==
    /\ [][(view = "quiz_setup" /\ C9_EmptyBank)
          => /\ view' # "quiz"
             /\ UNCHANGED <<quizSession, currentQIdx, selectedOpt, isAnswered, score>>]_vars
    /\ [][(C9_EmptyBank /\ GenerateClick)
          => /\ alertMsg' = EmptyBankMsg
             /\ view' = "quiz_setup"]_vars
    /\ [](alertMsg # "" => (alertMsg = EmptyBankMsg /\ view = "quiz_setup" /\ C9_EmptyBank))

\* the notice is open over quiz setup, on a bank of size 0
C9_Witness ==
    /\ alertMsg = EmptyBankMsg
    /\ view = "quiz_setup"
    /\ HasField(activeData, "quizBank")
    /\ activeData.quizBank = <<>>

\* the state a failed analyze request must leave, with session error msg
C10_Failed(msg) ==
    /\ view' = "home"
    /\ errorMsg' = msg
    /\ isLoading' = FALSE
    /\ activeData' = activeData
    /\ playing' = playing

\* C10: when the analyze request fails (a non-success status or a network
\* failure), the view returns to home, the session error is the collaborator's
\* detail message, or the default message when none is given, the loading flag
\* is cleared and the bundle and the playing flag are unchanged.
C10_FailureReturnsHome ==
    [][/\ \A detail \in Details :
             AnalyzeHttpError(detail)
             => C10_Failed(IF detail # "" THEN detail ELSE DefaultErrorMsg)
       /\ AnalyzeNetworkError => C10_Failed(DefaultErrorMsg)]_vars

\* C11: at most one analyze request is in flight in every state: while one is
\* pending the loading flag is set and the view is analyzing, which offers no
\* submit control, and a request is sent only when none is pending.
C11_OneInFlight ==
    /\ [](/\ inFlight \in {0, 1}
          /\ inFlight = 1 => (isLoading /\ view = "analyzing" /\ ~SubmitEnabled)
          /\ isLoading => inFlight = 1)
    /\ [][inFlight' > inFlight => (inFlight = 0 /\ inFlight' = 1)]_vars

\* a second request pending, sent after a first video was studied and a word saved
C11_Witness ==
    /\ inFlight = 1
    /\ isLoading
    /\ activeData # NullData
    /\ userStats.savedWords # <<>>

\* the user is somewhere else than the analyzing view while the request is pending
C12_LeftAnalyzing == inFlight > 0 /\ view # "analyzing"

\* C12: a request that resolves after the user has left the analyzing view
\* changes neither the view, the bundle, the playing flag nor the error message.
C12_StaleResolutionNoOp ==
    [][(C12_LeftAnalyzing /\ inFlight' < inFlight)
       => UNCHANGED <<view, activeData, playing, errorMsg>>]_vars

\* while a request is pending the view is analyzing: the case of C12 never arises
C12_NeverLeft == [](~C12_LeftAnalyzing)

\* C18: a submit moves home to analyzing only when the URL is non-empty and no
\* request is in flight, and then clears the prior error and sets the loading
\* flag, changing nothing else; no request is issued on an empty URL; the
\* error message is empty in every state whose view is analyzing.
C18_SubmitClearsError ==
    /\ [][(view' = "analyzing" /\ view # "analyzing")
          => /\ view = "home" /\ urlInput # "" /\ inFlight = 0 /\ ~isLoading
             /\ errorMsg' = "" /\ isLoading' /\ inFlight' = 1
             /\ UNCHANGED <<activeTab, urlInput, activeData, userStats, playing,
                            currentScriptIdx, quizConfig, quizRun, alertMsg>>]_vars
    /\ [][inFlight' > inFlight
          => (urlInput # "" /\ view = "home" /\ view' = "analyzing")]_vars
    /\ [](view = "analyzing" => errorMsg = "")
    /\ [](urlInput = "" => ~SubmitEnabled)

\* a resubmission is being analyzed: a bundle of an earlier request is held,
\* the loading flag is set and no error is shown
C18_Witness ==
    /\ view = "analyzing"
    /\ errorMsg = ""
    /\ isLoading
    /\ inFlight = 1
    /\ activeData # NullData
    /\ urlInput # ""

\* the End-to-end case: the bank is the single easy question of the success
\* response, the configuration is easy with count 3
C13_Case ==
    /\ activeData # NullData
    /\ HasField(activeData, "quizBank")
    /\ activeData.quizBank = <<QE>>
    /\ quizConfig = [count |-> 3, difficulty |-> "easy"]

\* the session is three copies of the single bank question
C13_ThreeCopies(session) ==
    /\ Len(session) = 3
    /\ \A i \in 1..3 : C6_IsCopy(session[i], QE, i - 1)

\* C13: end to end, after a success response whose bank holds one easy
\* question, generating with difficulty easy and count 3 yields a session of 3
\* copies of that question; each correct answer adds one to the score, and
\* advancing past the last question with all 3 answered correctly reaches the
\* result view with score 3 and exactly 50 added to xp and to todayXp.
C13_EndToEnd ==
    /\ [][(view = "quiz_setup" /\ view' = "quiz" /\ C13_Case)
          => (C13_ThreeCopies(quizSession') /\ score' = 0 /\ currentQIdx' = 0)]_vars
    /\ []((view = "quiz" /\ C13_Case)
            => (C13_ThreeCopies(quizSession) /\ score <= C7_Answered))
    /\ [][(view = "quiz" /\ C13_Case /\ ~isAnswered /\ isAnswered')
          => IF selectedOpt = QE.answer
             THEN isCorrect' /\ score' = score + 1
             ELSE ~isCorrect' /\ score' = score]_vars
    /\ [][(view = "quiz" /\ C13_Case /\ isAnswered /\ currentQIdx = 2 /\ score = 3
            /\ currentQIdx' # currentQIdx)
          => FALSE]_vars
    /\ [][(view = "quiz" /\ view' = "result" /\ C13_Case /\ score = 3)
          => /\ score' = 3
             /\ userStats'.xp = userStats.xp + 50
             /\ userStats'.todayXp = userStats.todayXp + 50]_vars

\* the end of the End-to-end run: the result view, score 3, 50 awarded
C13_Witness ==
    /\ view = "result"
    /\ C13_Case
    /\ urlInput # ""
    /\ C13_ThreeCopies(quizSession)
    /\ score = 3
    /\ isCorrect
    /\ userStats.xp = InitXp + 50
    /\ userStats.todayXp = InitTodayXp + 50

\* C14: whenever the view is study and the bundle's transcript is non-empty,
\* the active line index is a valid index of that transcript.
C14_ActiveIndexValid ==
    (/\ view = "study"
     /\ HasField(activeData, "script")
     /\ Len(activeData.script) > 0)
    => currentScriptIdx \in 0..(Len(activeData.script) - 1)

\* C15: a progress tick emits an update of the active line index only when the
\* index it computes differs from the current one; a tick whose computed index
\* equals the current index emits none.
C15_TickEmitsOnlyChanges ==
    [][\A t \in Times :
          (/\ onProgress(t)
           /\ HasField(activeData, "script")
           /\ TickEmits(activeData.script, t, currentScriptIdx))
          => TickIndex(activeData.script, t) # currentScriptIdx]_vars

\* C16: checkAnswer occurs only in the quiz, on an unanswered question with an
\* option selected; it sets the answered flag, records correctness as
\* (selection = the question's answer), adds exactly one to the score when
\* correct and nothing otherwise, and leaves the index, the selection and the
\* session unchanged; once the question is answered, neither the selection,
\* the score nor the outcome changes until the advance to the next question
\* clears the selection (or a new quiz is generated, which starts a new attempt).
C16_SubmitAnswer ==
    /\ [][(~isAnswered /\ isAnswered')
          => /\ view = "quiz" /\ HasQuestion
             /\ selectedOpt # NoOpt
             /\ isCorrect' = (CurrentQ.answer = selectedOpt)
             /\ score' = score + (IF CurrentQ.answer = selectedOpt THEN 1 ELSE 0)
             /\ UNCHANGED <<view, currentQIdx, selectedOpt, quizSession>>]_vars
    /\ [][isAnswered
          => \/ view = "quiz_setup" /\ view' = "quiz"
             \/ /\ score' = score
                /\ isCorrect' = isCorrect
                /\ selectedOpt' # selectedOpt
                   => /\ view = "quiz"
                      /\ currentQIdx' = currentQIdx + 1
                      /\ ~isAnswered']_vars
    /\ [](view = "quiz" /\ isAnswered => selectedOpt # NoOpt)

\* the second question answered wrongly after the first was answered correctly
C16_Witness ==
    /\ view = "quiz"
    /\ currentQIdx = 1
    /\ isAnswered
    /\ ~isCorrect
    /\ selectedOpt # NoOpt
    /\ selectedOpt # CurrentQ.answer
    /\ score = 1

\* C17: the index moves only by an advance from an answered question that is
\* not the last, by exactly one, clearing the selection and the answered flag
\* and leaving the score, the session and the stats unchanged (or to 0 by a
\* generation); on the answered last question the advance sets the view to
\* result and awards score*10+20; an answered question becomes unanswered only
\* by moving to the next one, so none is skipped and none answered twice.
C17_Advance ==
    /\ [][currentQIdx' # currentQIdx
          => \/ view = "quiz_setup" /\ view' = "quiz" /\ currentQIdx' = 0
             \/ /\ view = "quiz" /\ view' = "quiz"
                /\ isAnswered
                /\ currentQIdx < Len(quizSession) - 1
                /\ currentQIdx' = currentQIdx + 1
                /\ selectedOpt' = NoOpt
                /\ ~isAnswered'
                /\ UNCHANGED <<score, quizSession, userStats>>]_vars
    /\ [][(view' = "result" /\ view # "result")
          => /\ view = "quiz"
             /\ isAnswered
             /\ currentQIdx = Len(quizSession) - 1
             /\ userStats'.xp = userStats.xp + score * 10 + 20
             /\ userStats'.todayXp = userStats.todayXp + score * 10 + 20
             /\ UNCHANGED quizRun]_vars
    /\ [][(view = "quiz" /\ isAnswered /\ ~isAnswered')
          => currentQIdx' = currentQIdx + 1]_vars
    /\ [](view = "quiz" => currentQIdx <= Len(quizSession) - 1)

\* a session of 5 run to its end, two answers correct
C17_Witness ==
    /\ view = "result"
    /\ Len(quizSession) = 5
    /\ currentQIdx = 4
    /\ isAnswered
    /\ score = 2
    /\ userStats.xp = InitXp + 40

\* C19: whenever the view is quiz, the session is non-empty and the question
\* index is in range, so the missing-question fallback is never rendered.
C19_QuestionInRange ==
    view = "quiz"
    => /\ Len(quizSession) > 0
       /\ currentQIdx \in 0..(Len(quizSession) - 1)
       /\ CurrentQ # Undefined

\* a quiz of 3 generated after a quiz of 5 (which padded the bank to 5) and
\* after an attempt was abandoned with a correct answer: its outcome is still
\* recorded, nothing was awarded
C19_Witness ==
    /\ view = "quiz"
    /\ Len(quizSession) = 3
    /\ quizConfig.count = 3
    /\ Len(activeData.quizBank) = 5
    /\ currentQIdx = 0
    /\ ~isAnswered
    /\ isCorrect
    /\ userStats.xp = InitXp

\* C20: xp and todayXp change only on the step from quiz to result, which
\* always awards; closing the quiz awards nothing and no action of the result
\* view changes the stats; xp - todayXp is the same in every state.
C20_AwardOnce ==
    /\ [](userStats.xp - userStats.todayXp = InitXp - InitTodayXp)
    /\ [][(userStats'.xp # userStats.xp \/ userStats'.todayXp # userStats.todayXp)
          => (view = "quiz" /\ view' = "result")]_vars
    /\ [][(view = "quiz" /\ view' = "result")
          => (userStats'.xp > userStats.xp /\ userStats'.todayXp > userStats.todayXp)]_vars
    /\ [][(view = "result" \/ (view = "quiz" /\ view' = "study"))
          => userStats'.xp = userStats.xp /\ userStats'.todayXp = userStats.todayXp]_vars

\* one attempt completed with score 0, then one abandoned with a correct answer
C20_Witness ==
    /\ view = "study"
    /\ userStats.xp = InitXp + 20
    /\ userStats.todayXp = InitTodayXp + 20
    /\ Len(quizSession) > 0
    /\ isAnswered
    /\ score > 0

\* the clicks (checks and advances) the attempt still needs to reach the result
C21_Rank == 2 * (Len(quizSession) - currentQIdx) - (IF isAnswered THEN 1 ELSE 0)

\* C21: an attempt that is not abandoned terminates: the learner who keeps
\* selecting, checking and advancing reaches the result view; a session of
\* length k starts 2k clicks away from it (k checks, k advances), every check
\* and every advance brings it exactly one click closer, the index growing by
\* one from 0 to k-1, and the result is entered by the last of them.
C21_Terminates ==
    /\ (view = "quiz") ~> (view = "result")
    /\ [][(view # "quiz" /\ view' = "quiz")
          => (currentQIdx' = 0 /\ C21_Rank' = 2 * quizConfig.count)]_vars
    /\ [][(view = "quiz" /\ (isAnswered' # isAnswered \/ currentQIdx' # currentQIdx
                                \/ view' # view))
          => IF view' = "result"
             THEN C21_Rank = 1 /\ currentQIdx = quizConfig.count - 1
             ELSE /\ view' = "quiz"
                  /\ C21_Rank' = C21_Rank - 1
                  /\ currentQIdx' \in {currentQIdx, currentQIdx + 1}]_vars
    /\ [](view = "quiz" => C21_Rank \in 1..(2 * quizConfig.count))

\* a session of 3 run to the result with one correct answer
C21_Witness ==
    /\ view = "result"
    /\ quizConfig.count = 3
    /\ Len(quizSession) = 3
    /\ currentQIdx = 2
    /\ isAnswered
    /\ score = 1

\* C22: the streak and today's goal are never changed: quiz completion changes
\* xp and todayXp and leaves the streak, the goal and the saved words, a save
\* changes the saved words only, and nothing else changes the stats.
C22_StreakAndGoalFixed ==
    /\ [](/\ userStats.streak = InitStreak
          /\ userStats.goalXp = InitGoalXp
          /\ DOMAIN userStats = {"xp", "streak", "todayXp", "goalXp", "savedWords"})
    /\ [][userStats' # userStats
          => \/ /\ view = "quiz" /\ view' = "result"
                /\ userStats' = [userStats EXCEPT !.xp = userStats'.xp,
                                                  !.todayXp = userStats'.todayXp]
             \/ /\ view = "study" /\ view' = "study"
                /\ userStats' = [userStats EXCEPT !.savedWords = userStats'.savedWords]
                /\ Len(userStats'.savedWords) = Len(userStats.savedWords) + 1]_vars

\* a quiz completed by a learner who had saved a word
C22_Witness ==
    /\ view = "result"
    /\ userStats.savedWords # <<>>
    /\ userStats.xp > InitXp
    /\ userStats.todayXp > InitTodayXp
    /\ userStats.streak = InitStreak
    /\ userStats.goalXp = InitGoalXp

\* C23: the loading flag is true exactly while the view is analyzing: it is
\* set by the submit that enters analyzing and cleared by the resolution that
\* leaves it, so on home the submit control is enabled whenever the URL is
\* non-empty; and, every request being eventually resolved, every analyzing
\* state is followed by study or home.
C23_LoadingWhileAnalyzing ==
    /\ [](isLoading <=> view = "analyzing")
    /\ [](view = "home" => (SubmitEnabled <=> urlInput # ""))
    /\ [][(~isLoading /\ isLoading')
          => (view = "home" /\ view' = "analyzing" /\ inFlight' = inFlight + 1)]_vars
    /\ [][(isLoading /\ ~isLoading')
          => (view = "analyzing" /\ view' \in {"study", "home"}
              /\ inFlight' = inFlight - 1)]_vars
    /\ (view = "analyzing") ~> (view \in {"study", "home"})

\* back on home after a failed request, the control enabled for a retry
C23_Witness ==
    /\ view = "home"
    /\ errorMsg # ""
    /\ ~isLoading
    /\ urlInput # ""
    /\ SubmitEnabled
    /\ inFlight = 0

=============================================================================
